---- MODULE Spec2Model ----
(***************************************************************************)
(* Model of mosquito/mapi.py (class Mosquito): the synchronous getters     *)
(* built on one Subscriber per telemetry message, the fire-and-forget      *)
(* commands, and the shadow caches of the stateful setters.                *)
(*                                                                         *)
(* mapi.py is modelled statement by statement.  Its collaborators          *)
(* (mosquito.notify: Subscriber/publisher, mosquito.coms: _send_data and   *)
(* the stream pump, mosquito.msppg: the serializers and the frame parser) *)
(* are modelled from the design document: a Subscriber is a (latest value, *)
(* version) cell, get_value() is await_fresh with the version read on      *)
(* entry, and the parser is the document's byte-by-byte state machine.     *)
(*                                                                         *)
(* Representation.  A tuple is a sequence (1-based: Python's x[0] is       *)
(* x[1]).  A scalar a getter returns is written as a one-element tuple and *)
(* a Python bool as 0/1, so that every value is a sequence of integers.    *)
(* An optional argument (None or a value) is <<>> or <<value>>.  An angle  *)
(* k stands for k*pi/4 radians, so that angle*180/pi is 45*k.              *)
(***************************************************************************)
EXTENDS Integers, Sequences, FiniteSets, TLC

VARIABLES
    version,               \* Subscriber: number of values published to it
    latest,                \* Subscriber: the value last published (<<>>: none)
    pubLog,                \* history: the message of each report, in order
    closed,                \* the transport reached end-of-stream / was closed
    pc,                    \* caller thread: idle, sent, waiting, done
    call,                  \* caller thread: the getter it runs and its argument
    since,                 \* caller thread, inside get_value: version read on entry
    sendVer,               \* history: version when the request was written
    result,                \* caller thread: what the getter gave its caller
    motor_values,          \* self.__motor_values
    led_status,            \* self.__led_status
    voltage,               \* self.__voltage
    controller_constants,  \* self.__controller_constants
    nWrites,               \* history: number of calls of the transport write
    lastFrame,             \* history: the frame given to the last write call
    motorsSent,            \* history: last motor payload the transport accepted
    ledsSent,              \* history: last LED payload the transport accepted
    raised,                \* history: exception the last call raised before the
                           \* transport write ("none": it reached the write)
    parser,                \* the frame parser's state, kept across reads
    rawFrame,              \* history: bytes of the frame in progress, from its
                           \* length byte on
    nFed                   \* history: number of bytes the pump has read

vars == <<version, latest, pubLog, closed, pc, call, since, sendVer, result,
          motor_values, led_status, voltage, controller_constants,
          nWrites, lastFrame, motorsSent, ledsSent, raised,
          parser, rawFrame, nFed>>

subVars == <<version, latest, pubLog>>
callerVars == <<pc, call, since, sendVer, result>>
cacheVars == <<motor_values, led_status, voltage, controller_constants>>
sentVars == <<nWrites, lastFrame, motorsSent, ledsSent>>
readVars == <<parser, rawFrame, nFed>>
wireVars == <<sentVars, raised, readVars>>

(***************************************************************************)
(* Bounds of the model.                                                    *)
(***************************************************************************)
MaxWrites == 2
MaxPublish == 2
MaxFeed == 14
MaxPayload == 3
\* Writes and reports together, in the runs that have callers, commands and
\* the stream at once.
MaxJoint == 3

Callers == {"t1", "t2"}
NoSnapshot == 0 - 1

(***************************************************************************)
(* The wiring made by Mosquito.__init__.                                   *)
(***************************************************************************)
Subscribers == {"position_board_connected_sub", "firmware_version_sub",
                "attitude_sub", "velocities_sub", "motors_sub",
                "voltage_sub", "PID_sub"}

Publishers == {"position_board_connected_pub", "firmware_version_pub",
               "attitude_pub", "velocities_pub", "motors_pub",
               "voltage_pub", "PID_pub"}

Messages == {"POSITION_BOARD_CONNECTED", "FIRMWARE_VERSION", "ATTITUDE_RADIANS",
             "GET_VELOCITIES", "GET_MOTOR_NORMAL", "GET_BATTERY_VOLTAGE",
             "GET_PID_CONSTANTS"}

Getters == {"position_board_connected", "get_firmware_version", "get_attitude",
            "get_velocities", "get_voltage", "get_motors", "get_PID"}

SubscriberOf(p) ==
    CASE p = "position_board_connected_pub" -> "position_board_connected_sub"
      [] p = "firmware_version_pub" -> "firmware_version_sub"
      [] p = "attitude_pub" -> "attitude_sub"
      [] p = "velocities_pub" -> "velocities_sub"
      [] p = "motors_pub" -> "motors_sub"
      [] p = "voltage_pub" -> "voltage_sub"
      [] p = "PID_pub" -> "PID_sub"

\* HandlerOf with two set_..._Handler lines given each other's publisher.
HandlerOf_Crossed(m) ==
    CASE m = "POSITION_BOARD_CONNECTED" -> "position_board_connected_pub"
      [] m = "FIRMWARE_VERSION" -> "firmware_version_pub"
      [] m = "ATTITUDE_RADIANS" -> "velocities_pub"
      [] m = "GET_VELOCITIES" -> "attitude_pub"
      [] m = "GET_MOTOR_NORMAL" -> "motors_pub"
      [] m = "GET_BATTERY_VOLTAGE" -> "voltage_pub"
      [] m = "GET_PID_CONSTANTS" -> "PID_pub"

HandlerOf(m) ==
    CASE m = "POSITION_BOARD_CONNECTED" -> "position_board_connected_pub"
      [] m = "FIRMWARE_VERSION" -> "firmware_version_pub"
      [] m = "ATTITUDE_RADIANS" -> "attitude_pub"
      [] m = "GET_VELOCITIES" -> "velocities_pub"
      [] m = "GET_MOTOR_NORMAL" -> "motors_pub"
      [] m = "GET_BATTERY_VOLTAGE" -> "voltage_pub"
      [] m = "GET_PID_CONSTANTS" -> "PID_pub"

\* The message whose request frame a getter sends.
RequestOf(g) ==
    CASE g = "position_board_connected" -> "POSITION_BOARD_CONNECTED"
      [] g = "get_firmware_version" -> "FIRMWARE_VERSION"
      [] g = "get_attitude" -> "ATTITUDE_RADIANS"
      [] g = "get_velocities" -> "GET_VELOCITIES"
      [] g = "get_voltage" -> "GET_BATTERY_VOLTAGE"
      [] g = "get_motors" -> "GET_MOTOR_NORMAL"
      [] g = "get_PID" -> "GET_PID_CONSTANTS"

\* SubOf with get_voltage returning the value of the firmware Subscriber.
SubOf_Crossed(g) ==
    CASE g = "position_board_connected" -> "position_board_connected_sub"
      [] g = "get_firmware_version" -> "firmware_version_sub"
      [] g = "get_attitude" -> "attitude_sub"
      [] g = "get_velocities" -> "velocities_sub"
      [] g = "get_voltage" -> "firmware_version_sub"
      [] g = "get_motors" -> "motors_sub"
      [] g = "get_PID" -> "PID_sub"

\* The Subscriber whose get_value() a getter calls.
SubOf(g) ==
    CASE g = "position_board_connected" -> "position_board_connected_sub"
      [] g = "get_firmware_version" -> "firmware_version_sub"
      [] g = "get_attitude" -> "attitude_sub"
      [] g = "get_velocities" -> "velocities_sub"
      [] g = "get_voltage" -> "voltage_sub"
      [] g = "get_motors" -> "motors_sub"
      [] g = "get_PID" -> "PID_sub"

\* The Subscription of a message type: the one its getter waits on.
TypeSub(m) == SubOf(CHOOSE g \in Getters : RequestOf(g) = m)

(***************************************************************************)
(* Frames (mosquito.msppg).                                                *)
(***************************************************************************)
FieldCount(m) ==
    CASE m = "POSITION_BOARD_CONNECTED" -> 1
      [] m = "FIRMWARE_VERSION" -> 1
      [] m = "ATTITUDE_RADIANS" -> 3
      [] m = "GET_VELOCITIES" -> 3
      [] m = "GET_MOTOR_NORMAL" -> 4
      [] m = "GET_BATTERY_VOLTAGE" -> 1
      [] m = "GET_PID_CONSTANTS" -> 19

serialize_Request(m) == [type |-> m, dir |-> "request", payload |-> <<>>]

serialize(m, values) == [type |-> m, dir |-> "command", payload |-> values]

NoFrame == [type |-> "none", dir |-> "none", payload |-> <<>>]


(***************************************************************************)
(* The transport write (MosquitoComms._send_data): one write call per      *)
(* frame; the write succeeds or fails with IOError, and fails once the     *)
(* transport is closed.                                                    *)
(***************************************************************************)
WriteOutcomes == IF closed THEN {FALSE} ELSE BOOLEAN

send_data(frame, ok) ==
    /\ nWrites < MaxWrites
    /\ ok \in WriteOutcomes
    /\ nWrites' = nWrites + 1
    /\ lastFrame' = frame
    /\ motorsSent' = IF ok /\ frame.type = "SET_MOTOR_NORMAL"
                     THEN frame.payload ELSE motorsSent
    /\ ledsSent' = IF ok /\ frame.type = "SET_LEDS"
                   THEN frame.payload ELSE ledsSent
    /\ raised' = "none"
    /\ UNCHANGED readVars

(***************************************************************************)
(* Subscriber and publisher (mosquito.notify), the stream pump.            *)
(***************************************************************************)
\* Number of values published so far.
Published ==
    version["position_board_connected_sub"] + version["firmware_version_sub"]
    + version["attitude_sub"] + version["velocities_sub"]
    + version["motors_sub"] + version["voltage_sub"] + version["PID_sub"]

\* The values the device reports for a message: its k-th report, of whatever
\* message, carries the number k in every field, so that a value tells which
\* report it came from.
PubValues(m) == {[i \in 1..FieldCount(m) |-> Published + 1]}

\* publisher(subscriber): the handler stores the value and wakes the waiters.
publish(s, value) ==
    /\ latest' = [latest EXCEPT ![s] = value]
    /\ version' = [version EXCEPT ![s] = @ + 1]

\* The pump decoded a frame of message m and called the handler set for it.
pump_dispatch(m, value) ==
    /\ ~closed
    /\ Published < MaxPublish
    /\ publish(SubscriberOf(HandlerOf(m)), value)
    /\ pubLog' = Append(pubLog, m)
    /\ UNCHANGED <<closed, callerVars, cacheVars, wireVars>>

\* The byte source signalled end-of-stream, or the transport was closed.
pump_close ==
    /\ ~closed
    /\ closed' = TRUE
    /\ UNCHANGED <<subVars, callerVars, cacheVars, wireVars>>

(***************************************************************************)
(* The frame parser (mosquito.msppg) the pump feeds, byte by byte.         *)
(* Wire format: preamble (2 bytes), direction, length, type, payload,      *)
(* checksum.  Every field of a payload is taken to be one byte wide.       *)
(***************************************************************************)
PreambleStart == 36
PreambleEnd == 77
DirectionMarkers == {60, 62}

\* The bytes the device, or noise on the line, delivers.
InputBytes == {0, 1, 2, 3, 36, 62, 77}

\* The table of message types: the message registered under a type byte.
TypeOfId(type_id) ==
    CASE type_id = 1 -> "POSITION_BOARD_CONNECTED"
      [] type_id = 2 -> "FIRMWARE_VERSION"
      [] type_id = 3 -> "ATTITUDE_RADIANS"
      [] type_id = 4 -> "GET_VELOCITIES"
      [] type_id = 5 -> "GET_MOTOR_NORMAL"
      [] type_id = 6 -> "GET_BATTERY_VOLTAGE"
      [] type_id = 7 -> "GET_PID_CONSTANTS"
      [] OTHER -> "unknown"

\* Exclusive or of two bytes, bit by bit.
RECURSIVE Xor(_, _)
Xor(a, b) ==
    IF a = 0 THEN b
    ELSE IF b = 0 THEN a
         ELSE (((a % 2) + (b % 2)) % 2) + (2 * Xor(a \div 2, b \div 2))

RECURSIVE XorAll(_)
XorAll(bytes) ==
    IF bytes = <<>> THEN 0 ELSE Xor(Head(bytes), XorAll(Tail(bytes)))

\* Checksum with the length and type bytes left out.
Checksum_PayloadOnly(length, type_id, payload) == XorAll(payload)

\* The checksum of a frame: the XOR of its length, type and payload bytes.
Checksum(length, type_id, payload) == Xor(length, Xor(type_id, XorAll(payload)))

Seeking(pre) ==
    [state |-> "SEEK_PREAMBLE", pre |-> pre, length |-> 0, type_id |-> 0,
     payload |-> <<>>]

NoEmit == <<>>

\* One byte advances the parser by one transition: the parser after the byte
\* and the frame the byte completes, if any.  A first preamble byte met
\* inside a frame abandons the frame and starts again.
Feed(b) ==
    IF parser.state = "SEEK_PREAMBLE"
    THEN [next |-> IF parser.pre = 1 /\ b = PreambleEnd
                   THEN [parser EXCEPT !.state = "SEEK_DIRECTION", !.pre = 0]
                   ELSE Seeking(IF b = PreambleStart THEN 1 ELSE 0),
          emit |-> NoEmit]
    ELSE IF b = PreambleStart
    THEN [next |-> Seeking(1), emit |-> NoEmit]
    ELSE CASE parser.state = "SEEK_DIRECTION" ->
                [next |-> IF b \in DirectionMarkers
                          THEN [parser EXCEPT !.state = "READ_LENGTH"]
                          ELSE Seeking(0),
                 emit |-> NoEmit]
           [] parser.state = "READ_LENGTH" ->
                [next |-> [parser EXCEPT !.state = "READ_TYPE", !.length = b],
                 emit |-> NoEmit]
           [] parser.state = "READ_TYPE" ->
                [next |-> [parser EXCEPT
                              !.state = IF parser.length = 0
                                        THEN "READ_CHECKSUM" ELSE "READ_PAYLOAD",
                              !.type_id = b],
                 emit |-> NoEmit]
           [] parser.state = "READ_PAYLOAD" ->
                [next |-> [parser EXCEPT
                              !.state = IF Len(parser.payload) + 1 = parser.length
                                        THEN "READ_CHECKSUM" ELSE "READ_PAYLOAD",
                              !.payload = Append(parser.payload, b)],
                 emit |-> NoEmit]
           [] parser.state = "READ_CHECKSUM" ->
                [next |-> Seeking(0),
                 emit |-> IF b = Checksum(parser.length, parser.type_id,
                                          parser.payload)
                          THEN <<[type_id |-> parser.type_id,
                                  payload |-> parser.payload]>>
                          ELSE NoEmit]

\* The decode step: a frame of a registered type whose payload has the
\* length of the type's fields is handed on; any other frame is dropped.
Decodable(frame) ==
    /\ TypeOfId(frame.type_id) \in Messages
    /\ Len(frame.payload) = FieldCount(TypeOfId(frame.type_id))

\* The pump reads one byte and feeds it to the parser; a frame the byte
\* completes is decoded and given to the handler set for its message.
pump_feed(b) ==
    /\ ~closed
    /\ nFed < MaxFeed
    /\ parser.state = "READ_LENGTH" => (b <= MaxPayload \/ b = PreambleStart)
    /\ nFed' = nFed + 1
    /\ parser' = Feed(b).next
    /\ rawFrame' = IF Feed(b).next.state \in {"READ_TYPE", "READ_PAYLOAD",
                                                "READ_CHECKSUM"}
                   THEN Append(rawFrame, b) ELSE <<>>
    /\ IF Feed(b).emit # NoEmit /\ Decodable(Feed(b).emit[1])
       THEN /\ publish(SubscriberOf(HandlerOf(TypeOfId(Feed(b).emit[1].type_id))),
                       Feed(b).emit[1].payload)
            /\ pubLog' = Append(pubLog, TypeOfId(Feed(b).emit[1].type_id))
       ELSE UNCHANGED subVars
    /\ UNCHANGED <<closed, callerVars, cacheVars, sentVars, raised>>

\* What a wait on Subscriber s that started at version since_version ends
\* with, when the waiter runs again: a fresh value, the connection's end, or
\* the expiry of its timeout.
await_fresh(s, since_version) ==
    IF version[s] > since_version
    THEN [kind |-> "value", val |-> latest[s]]
    ELSE IF closed
         THEN [kind |-> "ConnectionClosed", val |-> <<>>]
         ELSE [kind |-> "TimedOut", val |-> <<>>]

(***************************************************************************)
(* The getters.                                                            *)
(***************************************************************************)
\* GetterResult with a getter that answers an expired wait with a default.
GetterResult_DefaultOnTimeout(g, degrees, signal) ==
    IF signal.kind = "value"
    THEN [kind |-> "value", val |-> signal.val]
    ELSE IF signal.kind = "TimedOut"
         THEN [kind |-> "value", val |-> <<0>>]
         ELSE [kind |-> signal.kind, val |-> <<>>]

\* GetterResult with a getter that reports every failure as a timeout.
GetterResult_AllTimeouts(g, degrees, signal) ==
    IF signal.kind = "value"
    THEN [kind |-> "value", val |-> signal.val]
    ELSE [kind |-> "RequestTimeout", val |-> <<>>]

\* What the getter's return statement makes of get_value()'s outcome.
GetterResult(g, degrees, signal) ==
    IF signal.kind = "value"
    THEN [kind |-> "value",
          val |-> CASE g = "position_board_connected" ->
                         <<IF Len(signal.val) > 0 THEN 1 ELSE 0>>
                    [] g \in {"get_firmware_version", "get_voltage"} ->
                         <<signal.val[1]>>
                    [] g = "get_attitude" ->
                         IF ~degrees THEN signal.val
                         ELSE [i \in 1..Len(signal.val) |-> signal.val[i] * 45]
                    [] OTHER -> signal.val]
    ELSE IF signal.kind = "TimedOut"
         THEN [kind |-> "RequestTimeout", val |-> <<>>]
         ELSE [kind |-> signal.kind, val |-> <<>>]

\* The motor numbers get_motor is called with.
PickedMotors == {3}

NoResult == [kind |-> "none", val |-> <<>>]
NoCall == [getter |-> "none", degrees |-> FALSE, motor |-> <<>>]

\* get_motor(motor): motor_values = self.get_motors(), then
\* return motor_values[motor-1]; a failure of get_motors passes through.
get_motor_pick(motor, motor_values_got) ==
    IF motor_values_got.kind = "value"
    THEN [kind |-> "value", val |-> <<motor_values_got.val[motor]>>]
    ELSE motor_values_got

\* What caller c's call returns when get_value() ends with signal: the
\* getter's result, and for get_motor the motor picked from it.
CallResult(c, signal) ==
    IF call[c].motor = <<>>
    THEN GetterResult(call[c].getter, call[c].degrees, signal)
    ELSE get_motor_pick(call[c].motor[1],
                        GetterResult(call[c].getter, call[c].degrees, signal))

\* getter_send with a getter that empties its Subscriber before it asks.
getter_send_Clears(c, g, degrees, ok) ==
    /\ pc[c] = "idle"
    /\ send_data(serialize_Request(RequestOf(g)), ok)
    /\ call' = [call EXCEPT ![c] =
                   [getter |-> g, degrees |-> degrees, motor |-> <<>>]]
    /\ sendVer' = [sendVer EXCEPT ![c] = version[SubOf(g)]]
    /\ pc' = [pc EXCEPT ![c] = IF ok THEN "sent" ELSE "done"]
    /\ result' = [result EXCEPT ![c] =
                     IF ok THEN NoResult ELSE [kind |-> "IOError", val |-> <<>>]]
    /\ latest' = [latest EXCEPT ![SubOf(g)] = <<>>]
    /\ UNCHANGED <<version, pubLog, closed, since, cacheVars>>

\* First statement of a getter: self._send_data(serialize_X_Request()).
getter_send(c, g, degrees, ok) ==
    /\ pc[c] = "idle"
    /\ send_data(serialize_Request(RequestOf(g)), ok)
    /\ call' = [call EXCEPT ![c] =
                   [getter |-> g, degrees |-> degrees, motor |-> <<>>]]
    /\ sendVer' = [sendVer EXCEPT ![c] = version[SubOf(g)]]
    /\ pc' = [pc EXCEPT ![c] = IF ok THEN "sent" ELSE "done"]
    /\ result' = [result EXCEPT ![c] =
                     IF ok THEN NoResult ELSE [kind |-> "IOError", val |-> <<>>]]
    /\ UNCHANGED <<subVars, closed, since, cacheVars>>

\* get_motor(motor) calls get_motors(): the caller runs get_motors, and
\* remembers the motor to pick from what it returns.
get_motor(c, motor, ok) ==
    /\ pc[c] = "idle"
    /\ send_data(serialize_Request(RequestOf("get_motors")), ok)
    /\ call' = [call EXCEPT ![c] =
                   [getter |-> "get_motors", degrees |-> FALSE, motor |-> <<motor>>]]
    /\ sendVer' = [sendVer EXCEPT ![c] = version[SubOf("get_motors")]]
    /\ pc' = [pc EXCEPT ![c] = IF ok THEN "sent" ELSE "done"]
    /\ result' = [result EXCEPT ![c] =
                     IF ok THEN NoResult ELSE [kind |-> "IOError", val |-> <<>>]]
    /\ UNCHANGED <<subVars, closed, since, cacheVars>>

\* Second statement, the call: the getter enters sub.get_value(), which reads
\* the Subscriber's version and starts to wait.
getter_wait(c) ==
    /\ pc[c] = "sent"
    /\ since' = [since EXCEPT ![c] = version[SubOf(call[c].getter)]]
    /\ pc' = [pc EXCEPT ![c] = "waiting"]
    /\ UNCHANGED <<subVars, closed, call, sendVer, result, cacheVars, wireVars>>

\* getter_return with a getter that resets its Subscriber when its wait
\* expires.
getter_return_ExpiryResets(c) ==
    /\ pc[c] = "waiting"
    /\ result' = [result EXCEPT ![c] =
                     CallResult(c, await_fresh(SubOf(call[c].getter), since[c]))]
    /\ pc' = [pc EXCEPT ![c] = "done"]
    /\ since' = [since EXCEPT ![c] = NoSnapshot]
    /\ IF await_fresh(SubOf(call[c].getter), since[c]).kind = "TimedOut"
       THEN /\ latest' = [latest EXCEPT ![SubOf(call[c].getter)] = <<>>]
            /\ version' = [version EXCEPT ![SubOf(call[c].getter)] = 0]
            /\ UNCHANGED pubLog
       ELSE UNCHANGED subVars
    /\ UNCHANGED <<closed, call, sendVer, cacheVars, wireVars>>

\* getter_return with a get_motors that stores the reported values in the
\* motor cache.
getter_return_SyncsCache(c) ==
    /\ pc[c] = "waiting"
    /\ result' = [result EXCEPT ![c] =
                     CallResult(c, await_fresh(SubOf(call[c].getter), since[c]))]
    /\ pc' = [pc EXCEPT ![c] = "done"]
    /\ since' = [since EXCEPT ![c] = NoSnapshot]
    /\ motor_values' =
          IF /\ call[c].getter = "get_motors"
             /\ await_fresh(SubOf(call[c].getter), since[c]).kind = "value"
          THEN latest[SubOf(call[c].getter)]
          ELSE motor_values
    /\ UNCHANGED <<subVars, closed, call, sendVer, led_status, voltage,
                   controller_constants, wireVars>>

\* Second statement, the return: get_value() ends and the getter returns.
getter_return(c) ==
    /\ pc[c] = "waiting"
    /\ result' = [result EXCEPT ![c] =
                     CallResult(c, await_fresh(SubOf(call[c].getter), since[c]))]
    /\ pc' = [pc EXCEPT ![c] = "done"]
    /\ since' = [since EXCEPT ![c] = NoSnapshot]
    /\ UNCHANGED <<subVars, closed, call, sendVer, cacheVars, wireVars>>


(***************************************************************************)
(* The commands: each builds one frame and gives it to _send_data.         *)
(***************************************************************************)
Bools == {0, 1}
Stages == 0..2
Sections == 0..2
Heights == {50, 100}
Times == {1, 2}
Angles == {0 - 1, 0, 1}
Volts == {7}
MotorInputs == {<<0, 0, 0, 0>>, <<1, 2, 3, 4>>}
MotorNumbers == 1..4
\* Calls outside the documented arguments: a number of motor values other
\* than four, a motor number outside 1..4.
BadMotorInputs == {<<1, 2, 3>>, <<1, 2, 3, 4, 5>>}
OtherMotorNumbers == {0 - 1, 0, 5}
MotorVals == {0, 5}
LedArgs == {<<>>, <<0>>, <<1>>}
PIDInputs == {[i \in 1..19 |-> i]}

\* A command that only sends: nothing of the object changes.
SendOnly(frame, ok) ==
    /\ send_data(frame, ok)
    /\ UNCHANGED <<subVars, closed, callerVars, cacheVars>>

arm(ok) == SendOnly(serialize_Request("WP_ARM"), ok)

disarm(ok) == SendOnly(serialize_Request("WP_DISARM"), ok)

set_position_board(has_position_board, ok) ==
    SendOnly(serialize("SET_POSITIONING_BOARD", <<has_position_board>>), ok)

set_mosquito_version(is_mosquito_90, ok) ==
    SendOnly(serialize("SET_MOSQUITO_VERSION", <<is_mosquito_90>>), ok)

calibrate_ESCs(ok) == SendOnly(serialize("ESC_CALIBRATION", <<0>>), ok)

calibrate_transmitter(stage, ok) ==
    SendOnly(serialize("RC_CALIBRATION", <<stage>>), ok)

\* self.__motor_values = values, then serialize_SET_MOTOR_NORMAL(*values),
\* which takes exactly four values and raises TypeError for any other number,
\* then the send.
set_motors(values, ok) ==
    /\ motor_values' = values
    /\ IF Len(values) = 4
       THEN send_data(serialize("SET_MOTOR_NORMAL", values), ok)
       ELSE raised' = "TypeError" /\ UNCHANGED <<sentVars, readVars>>
    /\ UNCHANGED <<subVars, closed, callerVars, led_status, voltage,
                   controller_constants>>

\* The tuple set_motor builds from the cache: i runs over range(4).
MotorTuple(motor, value) ==
    LET motor_idx == motor - 1
    IN  [k \in 1..4 |-> IF (k - 1) # motor_idx THEN motor_values[k] ELSE value]

\* Building the tuple reads self.__motor_values[i] for every i in range(4)
\* other than motor_idx: IndexError when the cache is shorter than that.
set_motor(motor, value, ok) ==
    IF \E i \in 0..3 : i # motor - 1 /\ i + 1 > Len(motor_values)
    THEN /\ raised' = "IndexError"
         /\ UNCHANGED <<subVars, closed, callerVars, cacheVars, sentVars,
                        readVars>>
    ELSE set_motors(MotorTuple(motor, value), ok)

set_voltage(v, ok) ==
    /\ voltage' = v
    /\ send_data(serialize("SET_BATTERY_VOLTAGE", <<v>>), ok)
    /\ UNCHANGED <<subVars, closed, callerVars, motor_values, led_status,
                   controller_constants>>

set_PID(constants, ok) ==
    /\ controller_constants' = constants
    /\ send_data(serialize("SET_PID_CONSTANTS", constants), ok)
    /\ UNCHANGED <<subVars, closed, callerVars, motor_values, led_status, voltage>>

\* The tuple set_leds stores: the cached status where the argument is None.
LedTuple(red, green, blue) ==
    LET args == <<red, green, blue>>
    IN  [idx \in 1..3 |-> IF args[idx] = <<>> THEN led_status[idx] ELSE args[idx][1]]

\* self.__led_status = ..., then the send of the stored tuple.
set_leds(red, green, blue, ok) ==
    /\ led_status' = LedTuple(red, green, blue)
    /\ send_data(serialize("SET_LEDS", led_status'), ok)
    /\ UNCHANGED <<subVars, closed, callerVars, motor_values, voltage,
                   controller_constants>>

clear_EEPROM(section, ok) == SendOnly(serialize("CLEAR_EEPROM", <<section>>), ok)

stop(ok) == SendOnly(serialize("SET_EMERGENCY_STOP", <<0>>), ok)

execute_mission(ok) == SendOnly(serialize("WP_MISSION_BEGIN", <<1>>), ok)

take_off(height, ok) == SendOnly(serialize("WP_TAKE_OFF", <<height, 0>>), ok)

land(ok) == SendOnly(serialize("WP_LAND", <<0>>), ok)

hover(time, ok) == SendOnly(serialize("WP_HOVER", <<time, 0>>), ok)

change_height(height, ok) ==
    SendOnly(serialize("WP_CHANGE_ALTITUDE", <<height, 0>>), ok)

move_forward(time, ok) == SendOnly(serialize("WP_GO_FORWARD", <<time, 0>>), ok)

move_backwards(time, ok) == SendOnly(serialize("WP_GO_BACKWARD", <<time, 0>>), ok)

move_left(time, ok) == SendOnly(serialize("WP_GO_LEFT", <<time, 0>>), ok)

move_right(time, ok) == SendOnly(serialize("WP_GO_RIGHT", <<time, 0>>), ok)

\* turn with both branches taken: two frames in one call.
turn_SendsBoth(angle, ok) ==
    /\ nWrites + 2 <= MaxWrites
    /\ ok \in WriteOutcomes
    /\ nWrites' = nWrites + 2
    /\ lastFrame' = serialize("WP_TURN_CW", <<angle, 0>>)
    /\ UNCHANGED <<subVars, closed, callerVars, cacheVars, motorsSent, ledsSent,
                   raised, readVars>>

\* turn with the test written angle >= 0.
turn_ZeroCCW(angle, ok) ==
    IF angle >= 0
    THEN SendOnly(serialize("WP_TURN_CCW", <<angle, 0>>), ok)
    ELSE SendOnly(serialize("WP_TURN_CW", <<angle, 0>>), ok)

turn(angle, ok) ==
    IF angle > 0
    THEN SendOnly(serialize("WP_TURN_CCW", <<angle, 0>>), ok)
    ELSE SendOnly(serialize("WP_TURN_CW", <<angle, 0>>), ok)

(***************************************************************************)
(* Initial state: Mosquito.__init__.                                       *)
(***************************************************************************)
Init ==
    /\ version = [s \in Subscribers |-> 0]
    /\ latest = [s \in Subscribers |-> <<>>]
    /\ pubLog = <<>>
    /\ closed = FALSE
    /\ pc = [c \in Callers |-> "idle"]
    /\ call = [c \in Callers |-> NoCall]
    /\ since = [c \in Callers |-> NoSnapshot]
    /\ sendVer = [c \in Callers |-> 0]
    /\ result = [c \in Callers |-> NoResult]
    /\ motor_values = <<0, 0, 0, 0>>
    /\ led_status = <<0, 0, 0>>
    /\ voltage = 0
    /\ controller_constants = [i \in 1..19 |-> 0]
    /\ nWrites = 0
    /\ lastFrame = NoFrame
    /\ motorsSent = <<0, 0, 0, 0>>
    /\ ledsSent = <<0, 0, 0>>
    /\ raised = "none"
    /\ parser = Seeking(0)
    /\ rawFrame = <<>>
    /\ nFed = 0

(***************************************************************************)
(* Steps.  The caller threads are interchangeable, so the thread that      *)
(* starts a getter is taken to be the first one still idle.                *)
(***************************************************************************)
FirstIdle == IF pc["t1"] = "idle" THEN {"t1"} ELSE {"t2"}

GetterStep ==
    \/ \E c \in FirstIdle, g \in Getters, ok \in BOOLEAN :
          \E degrees \in (IF g = "get_attitude" THEN BOOLEAN ELSE {FALSE}) :
             getter_send(c, g, degrees, ok)
    \/ \E c \in Callers : getter_wait(c)
    \/ \E c \in Callers : getter_return(c)

\* get_motor starts; its wait and its return are those of get_motors.
GetMotorStep ==
    \E c \in FirstIdle, motor \in PickedMotors, ok \in BOOLEAN :
       get_motor(c, motor, ok)

PumpStep ==
    \/ \E m \in Messages : \E value \in PubValues(m) : pump_dispatch(m, value)
    \/ pump_close

SimpleCommandStep ==
    \E ok \in BOOLEAN :
       \/ arm(ok)
       \/ disarm(ok)
       \/ \E b \in Bools : set_position_board(b, ok)
       \/ \E b \in Bools : set_mosquito_version(b, ok)
       \/ calibrate_ESCs(ok)
       \/ \E stage \in Stages : calibrate_transmitter(stage, ok)
       \/ \E section \in Sections : clear_EEPROM(section, ok)
       \/ stop(ok)
       \/ execute_mission(ok)
       \/ \E height \in Heights : take_off(height, ok)
       \/ land(ok)
       \/ \E time \in Times : hover(time, ok)
       \/ \E height \in Heights : change_height(height, ok)
       \/ \E time \in Times : move_forward(time, ok)
       \/ \E time \in Times : move_backwards(time, ok)
       \/ \E time \in Times : move_left(time, ok)
       \/ \E time \in Times : move_right(time, ok)
       \/ \E angle \in Angles : turn(angle, ok)

SetterStep ==
    \E ok \in BOOLEAN :
       \/ \E values \in MotorInputs : set_motors(values, ok)
       \/ \E motor \in MotorNumbers, value \in MotorVals : set_motor(motor, value, ok)
       \/ \E v \in Volts : set_voltage(v, ok)
       \/ \E constants \in PIDInputs : set_PID(constants, ok)
       \/ \E red \in LedArgs, green \in LedArgs, blue \in LedArgs :
             set_leds(red, green, blue, ok)

CommandStep == SimpleCommandStep \/ SetterStep

\* Calls of the motor setters outside their documented arguments.
EdgeCallStep ==
    \E ok \in BOOLEAN :
       \/ \E values \in BadMotorInputs : set_motors(values, ok)
       \/ \E motor \in OtherMotorNumbers, value \in MotorVals :
             set_motor(motor, value, ok)

NextGet == GetterStep \/ PumpStep

NextCmd == CommandStep

NextCmdPump == CommandStep \/ PumpStep

NextCmdAny == CommandStep \/ EdgeCallStep

ParseStep == \E b \in InputBytes : pump_feed(b)

NextParse == ParseStep \/ pump_close

\* Every step of the program, within the joint bound on writes and reports.
Next ==
    /\ GetterStep \/ GetMotorStep \/ PumpStep \/ CommandStep
    /\ nWrites' + Published' <= MaxJoint

\* The seven getters that have a Subscriber of their own, and the stream pump.
SpecGet == Init /\ [][NextGet]_vars

\* The commands alone.
SpecCmd == Init /\ [][NextCmd]_vars

\* The commands, and the motor setters with any arguments.
SpecCmdAny == Init /\ [][NextCmdAny]_vars

\* The stream pump reading bytes, and the parser.
SpecParse == Init /\ [][NextParse]_vars

\* The commands and the stream pump.
SpecCmdPump == Init /\ [][NextCmdPump]_vars

\* Getters (get_motor among them), pump and commands together.
Spec == Init /\ [][Next]_vars

\* A waiter that can run (woken by a publish, by the end of the connection or
\* by its timeout) is scheduled.
FairSpecGet == SpecGet /\ \A c \in Callers : WF_vars(getter_return(c))

(***************************************************************************)
(* The claims.                                                             *)
(***************************************************************************)
\* The Subscriber a caller's getter waits on.
MySub(c) == SubOf(call[c].getter)

\* Caller c's getter returns in this step.
Returns(c) == pc[c] = "waiting" /\ pc'[c] = "done"

\* C1: in every getter the version of the Subscription is recorded before the
\* request is sent: a caller whose request has been written and who has not
\* yet returned holds a snapshot.
C1_SnapshotBeforeSend ==
    \A c \in Callers : pc[c] = "sent" => since[c] # NoSnapshot

\* C2: no missed wakeup: when a value of the getter's type was published after
\* the request was sent and the connection is open, the getter returns a
\* value: it does not time out.
C2_NoMissedWakeup ==
    [][\A c \in Callers :
          (Returns(c) /\ ~closed /\ version[MySub(c)] > sendVer[c])
              => result'[c].kind = "value"]_vars

Blocked(c) ==
    pc[c] = "waiting" /\ closed /\ version[MySub(c)] <= since[c]

\* C4: a getter blocked when the transport ends is eventually released, and
\* fails with ConnectionClosed (not with RequestTimeout).
C4_ClosedReleases ==
    \A c \in Callers :
       Blocked(c) ~> (pc[c] = "done" /\ result[c].kind = "ConnectionClosed")

\* C4 witness: a getter has failed with ConnectionClosed.
C4_Witness ==
    \E c \in Callers :
       pc[c] = "done" /\ closed /\ result[c].kind = "ConnectionClosed"

\* C5: the payload set_motor(m, v) sends has v in slot m and, in the other
\* slots, the values of the motor payload sent last (0 before any).
C5_SetMotorKeepsSent ==
    [][\A motor \in MotorNumbers, value \in MotorVals :
          set_motor(motor, value, TRUE)
              => lastFrame'.payload =
                    [k \in 1..4 |-> IF k = motor THEN value ELSE motorsSent[k]]]_vars

\* C6: the payload set_leds(red, green, blue) sends has, for each LED, the
\* argument given for it and otherwise the status of the LED payload sent
\* last (0 before any).
C6_SetLedsKeepsSent ==
    [][\A red \in LedArgs, green \in LedArgs, blue \in LedArgs :
          set_leds(red, green, blue, TRUE)
              => lastFrame'.payload =
                    [idx \in 1..3 |->
                        IF <<red, green, blue>>[idx] = <<>>
                        THEN ledsSent[idx]
                        ELSE <<red, green, blue>>[idx][1]]]_vars

\* A call of set_motors, set_motor or set_leds whose transport write fails.
FailedSetter ==
    \/ \E values \in MotorInputs : set_motors(values, FALSE)
    \/ \E motor \in MotorNumbers, value \in MotorVals : set_motor(motor, value, FALSE)
    \/ \E red \in LedArgs, green \in LedArgs, blue \in LedArgs :
          set_leds(red, green, blue, FALSE)

\* C7: the shadow caches are updated only after a successful send: a setter
\* whose write fails leaves the motor cache and the LED cache as they were.
C7_CacheOnlyAfterSend ==
    [][FailedSetter => UNCHANGED <<motor_values, led_status>>]_vars

\* C8: every command hands exactly one frame to the transport, waits on no
\* Subscription, and leaves every Subscription's version and value unchanged.
C8_CommandsSendOnce ==
    [][CommandStep => /\ nWrites' = nWrites + 1
                      /\ lastFrame'.type \notin Messages
                      /\ UNCHANGED <<version, latest>>
                      /\ UNCHANGED <<pc, since>>]_vars

\* C8 witness: a command (turn) has sent its frame after values were
\* published.
C8_Witness ==
    /\ nWrites = 2
    /\ lastFrame = serialize("WP_TURN_CCW", <<1, 0>>)
    /\ version["attitude_sub"] = 1
    /\ version["voltage_sub"] = 1

\* C9: publishing a value of message type A changes the Subscription of type
\* A only: every other Subscription keeps its version and its latest value.
C9_DispatchIsolation ==
    [][\A m \in Messages :
          (subVars' # subVars /\ \E value \in PubValues(m) : pump_dispatch(m, value))
              => \A s \in Subscribers \ {TypeSub(m)} :
                    version'[s] = version[s] /\ latest'[s] = latest[s]]_vars

\* C9 witness: an attitude then a voltage were published, and the attitude
\* Subscription still holds what the first publish gave it.
C9_Witness ==
    /\ version["attitude_sub"] = 1
    /\ latest["attitude_sub"] = <<1, 1, 1>>
    /\ version["voltage_sub"] = 1
    /\ latest["voltage_sub"] = <<2>>

\* C10: for each telemetry type at most one getter call is between sending
\* its request and finishing its wait.
C10_SameTypeSerialized ==
    \A c1 \in Callers, c2 \in Callers :
       (/\ c1 # c2
        /\ pc[c1] \in {"sent", "waiting"}
        /\ pc[c2] \in {"sent", "waiting"})
          => call[c1].getter # call[c2].getter

\* The value the k-th report carries when it is a report of message m.
ReportOf(k, m) == [i \in 1..FieldCount(m) |-> k]

\* Caller c's wait has a fresh value to return.
Unblocked(c) == await_fresh(MySub(c), since[c]).kind = "value"

\* A value a getter has returned is a report of the getter's own message.
OwnTypeReturned ==
    \A c \in Callers :
       (pc[c] = "done" /\ result[c].kind = "value")
          => \E k \in 1..Len(pubLog) :
                /\ pubLog[k] = RequestOf(call[c].getter)
                /\ result[c] =
                      CallResult(c, [kind |-> "value",
                                     val |-> ReportOf(k, pubLog[k])])

\* A report of another message leaves a waiting getter as blocked as it was.
OtherTypeKeepsBlocked ==
    \A c \in Callers, m \in Messages :
       (/\ pc[c] = "waiting"
        /\ m # RequestOf(call[c].getter)
        /\ pubLog' = Append(pubLog, m))
          => (Unblocked(c)' <=> Unblocked(c))

\* C11: getters of different types are independent: a getter returns only a
\* value reported for its own message type, whatever the order of the
\* replies, and a report of another type never unblocks it.
C11_TypesIndependent ==
    []OwnTypeReturned /\ [][OtherTypeKeepsBlocked]_vars

\* C11 witness: the firmware version was requested first and the voltage
\* second, the replies came in the other order, and each getter returned the
\* report of its own type.
C11_Witness ==
    /\ pubLog = <<"GET_BATTERY_VOLTAGE", "FIRMWARE_VERSION">>
    /\ call["t1"].getter = "get_firmware_version"
    /\ call["t2"].getter = "get_voltage"
    /\ sendVer["t1"] = 0 /\ sendVer["t2"] = 0
    /\ pc["t1"] = "done" /\ result["t1"] = [kind |-> "value", val |-> <<2>>]
    /\ pc["t2"] = "done" /\ result["t2"] = [kind |-> "value", val |-> <<1>>]

\* The place in pubLog of the n-th report of message m.
NthReport(m, n) ==
    CHOOSE k \in 1..Len(pubLog) :
       pubLog[k] = m /\ Cardinality({j \in 1..k : pubLog[j] = m}) = n

\* Caller c's wait ends in this step by the expiry of its timeout.
Expires(c) == Returns(c) /\ result'[c].kind = "RequestTimeout"

\* Another caller of the same getter has had its wait expire.
PeerExpired(c) ==
    \E c2 \in Callers \ {c} :
       /\ call[c2].getter = call[c].getter
       /\ pc[c2] = "done"
       /\ result[c2].kind = "RequestTimeout"

\* An expiry changes no Subscription and no other caller's wait.
ExpiryFrame ==
    \A c \in Callers :
       Expires(c) => /\ version' = version /\ latest' = latest
                     /\ \A c2 \in Callers \ {c} :
                           /\ pc'[c2] = pc[c2]
                           /\ since'[c2] = since[c2]
                           /\ call'[c2] = call[c2]

\* What caller c returns when it returns the n-th report of its message.
ReturnOfReport(c, n) ==
    CallResult(c, [kind |-> "value",
                   val |-> ReportOf(NthReport(RequestOf(call[c].getter), n),
                                    RequestOf(call[c].getter))])

\* C12 as stated: the expiry of one waiter's timeout leaves the version and
\* the latest value of the Subscription as they were, and another waiter on
\* that Subscription, when a value has been published since its wait began,
\* returns the value of the next publish: the first one after its wait began.
C12_NextPublishReturned ==
    [][/\ ExpiryFrame
       /\ \A c \in Callers :
             (Returns(c) /\ PeerExpired(c) /\ version[MySub(c)] > since[c])
                => result'[c] = ReturnOfReport(c, since[c] + 1)]_vars

\* C12 amended: the expiry of one waiter's timeout leaves the version and the
\* latest value of the Subscription as they were, and another waiter on that
\* Subscription, when a value has been published since its wait began,
\* returns the value published last: the value of the next publish unless a
\* further publish replaced it before the waiter ran.
C12_ExpiryLeavesOthers ==
    [][/\ ExpiryFrame
       /\ \A c \in Callers :
             (Returns(c) /\ PeerExpired(c) /\ version[MySub(c)] > since[c])
                => /\ result'[c] = ReturnOfReport(c, version[MySub(c)])
                   /\ (version[MySub(c)] = since[c] + 1
                          => result'[c] = ReturnOfReport(c, since[c] + 1))]_vars

\* C12 witness: two callers asked for the motor values, the wait of the first
\* expired, the values were reported once and the second returned them.
C12_Witness ==
    /\ call["t1"].getter = "get_motors" /\ call["t2"].getter = "get_motors"
    /\ pc["t1"] = "done" /\ result["t1"].kind = "RequestTimeout"
    /\ pubLog = <<"GET_MOTOR_NORMAL">>
    /\ pc["t2"] = "done"
    /\ result["t2"] = [kind |-> "value", val |-> <<1, 1, 1, 1>>]

\* A step of a caller thread: a getter step moves its caller (idle, sent,
\* waiting, done) and a command hands a frame to the transport.
CallerThreadStep == pc' # pc \/ nWrites' # nWrites

\* A publish stores its value as the latest one of the Subscription of its
\* type and raises that version by exactly one.
PublishStores ==
    \A m \in Messages : \A value \in PubValues(m) :
       (pubLog' # pubLog /\ pump_dispatch(m, value))
          => /\ version'[TypeSub(m)] = version[TypeSub(m)] + 1
             /\ latest'[TypeSub(m)] = value

\* C13: the version of a Subscription never decreases; a version or a latest
\* value changes only in a publish made by the stream pump, which stores the
\* value as the latest one and raises the version by exactly one; no getter
\* (its send, its wait, its return by a value, by expiry or by the
\* connection's end) and no command changes a version or a latest value.
C13_OnlyPumpWrites ==
    [][/\ \A s \in Subscribers : version'[s] >= version[s]
       /\ (<<version, latest>>' # <<version, latest>>)
             => \E m \in Messages : \E value \in PubValues(m) :
                   pump_dispatch(m, value)
       /\ PublishStores
       /\ CallerThreadStep => UNCHANGED <<version, latest>>]_vars

\* C13 witness: a voltage was published once; since then a getter's wait has
\* expired and a command was sent, and the Subscription is as the publish
\* left it.
C13_Witness ==
    /\ version["voltage_sub"] = 1 /\ latest["voltage_sub"] = <<1>>
    /\ pubLog = <<"GET_BATTERY_VOLTAGE">>
    /\ call["t1"].getter = "get_voltage" /\ pc["t1"] = "done"
    /\ result["t1"].kind = "RequestTimeout"
    /\ nWrites = 2 /\ lastFrame = serialize_Request("WP_ARM")

\* C15: turn(angle) hands exactly one frame to the transport: a
\* counter-clockwise turn when angle > 0 and a clockwise turn otherwise (for
\* 0 and for a negative angle), and the frame carries the angle as given.
C15_TurnDirection ==
    [][\A angle \in Angles, ok \in BOOLEAN :
          turn(angle, ok)
             => /\ nWrites' = nWrites + 1
                /\ lastFrame'.type =
                      (IF angle > 0 THEN "WP_TURN_CCW" ELSE "WP_TURN_CW")
                /\ lastFrame'.payload = <<angle, 0>>
                /\ (lastFrame'.type = "WP_TURN_CCW" <=> lastFrame'.payload[1] > 0)]_vars

\* C15 witness: the second call was turn(0) and a clockwise turn of angle 0
\* was handed to the transport.
C15_Witness ==
    /\ nWrites = 2
    /\ lastFrame = serialize("WP_TURN_CW", <<0, 0>>)

\* C16: set_motors called with a number of values other than four fails with
\* an arity error, hands nothing to the transport and leaves the motor cache
\* holding the four values it held, so that a later set_motor still builds
\* and sends a payload of four values.
C16_ArityKeepsCache ==
    [][/\ \A values \in BadMotorInputs, ok \in BOOLEAN :
             set_motors(values, ok)
                => /\ raised' = "TypeError"
                   /\ UNCHANGED <<nWrites, lastFrame>>
                   /\ motor_values' = motor_values
       /\ \A motor \in MotorNumbers, value \in MotorVals, ok \in BOOLEAN :
             set_motor(motor, value, ok)
                => /\ raised' = "none"
                   /\ nWrites' = nWrites + 1
                   /\ Len(lastFrame'.payload) = 4]_vars

\* C17: set_motor(m, v) with m outside 1..4 raises no error and changes no
\* slot: it sends the four cached motor values unchanged and leaves the
\* cache equal to what it was.
C17_OutOfRangeMotor ==
    [][\A motor \in OtherMotorNumbers, value \in MotorVals, ok \in BOOLEAN :
          set_motor(motor, value, ok)
             => /\ raised' = "none"
                /\ nWrites' = nWrites + 1
                /\ Len(lastFrame'.payload) = 4
                /\ lastFrame'.payload = motor_values
                /\ motor_values' = motor_values]_vars

\* A call of set_motors or set_motor.
MotorSetterCall ==
    \E ok \in BOOLEAN :
       \/ \E values \in MotorInputs : set_motors(values, ok)
       \/ \E motor \in MotorNumbers, value \in MotorVals : set_motor(motor, value, ok)

\* A call of set_leds.
LedSetterCall ==
    \E ok \in BOOLEAN, red \in LedArgs, green \in LedArgs, blue \in LedArgs :
       set_leds(red, green, blue, ok)

\* A step of a getter (get_motors and get_motor among them: it moves its
\* caller), a step of the pump (a publish, the connection's end), or a
\* command that sends another frame than the motor and the LED setters'.
NotACacheSetter ==
    \/ pc' # pc
    \/ subVars' # subVars
    \/ closed' # closed
    \/ (nWrites' # nWrites /\ lastFrame'.type \notin {"SET_MOTOR_NORMAL", "SET_LEDS"})

\* C18: the motor cache is written only by set_motors and set_motor and the
\* LED cache only by set_leds: no getter, no published telemetry and no other
\* command changes either cache.
C18_CachesOnlyBySetters ==
    [][/\ (motor_values' # motor_values) => MotorSetterCall
       /\ (led_status' # led_status) => LedSetterCall
       /\ NotACacheSetter => UNCHANGED <<motor_values, led_status>>]_vars

\* C18 witness: the motor cache holds what set_motors was given while
\* get_motors has returned other motor values, those the device reported.
C18_Witness ==
    /\ motor_values = <<1, 2, 3, 4>>
    /\ latest["motors_sub"] = <<1, 1, 1, 1>>
    /\ \E c \in Callers :
          /\ pc[c] = "done"
          /\ call[c] = [getter |-> "get_motors", degrees |-> FALSE, motor |-> <<>>]
          /\ result[c] = [kind |-> "value", val |-> <<1, 1, 1, 1>>]

\* A byte sequence from a length byte to a checksum byte, whose length byte
\* counts its payload bytes and whose last byte is the XOR of all the bytes
\* before it: the length byte, the type byte and the payload bytes.
ChecksumVerified(bytes) ==
    /\ Len(bytes) >= 3
    /\ bytes[1] = Len(bytes) - 3
    /\ bytes[Len(bytes)] = XorAll(SubSeq(bytes, 1, Len(bytes) - 1))

\* C14: a value is published only by the byte that ends a frame whose
\* checksum byte equals the XOR of its length, type and payload bytes, and
\* the value published is that frame's payload, stored for the frame's type;
\* a byte sequence whose checksum byte differs publishes nothing, is discarded, and
\* the parser is back at seeking the preamble.
C14_ChecksumBeforePublish ==
    [][\A b \in InputBytes :
          pump_feed(b)
             => /\ (subVars' # subVars)
                      => /\ parser.state = "READ_CHECKSUM"
                         /\ ChecksumVerified(Append(rawFrame, b))
                         /\ pubLog' = Append(pubLog, TypeOfId(rawFrame[2]))
                         /\ latest'[TypeSub(TypeOfId(rawFrame[2]))] =
                               SubSeq(rawFrame, 3, Len(rawFrame))
                /\ (/\ parser.state = "READ_CHECKSUM"
                    /\ ~ChecksumVerified(Append(rawFrame, b)))
                      => /\ UNCHANGED subVars
                         /\ parser'.state = "SEEK_PREAMBLE"
                         /\ parser'.payload = <<>>
                         /\ rawFrame' = <<>>]_vars

\* C14 witness: fourteen bytes were read; the last seven were a firmware
\* frame with a right checksum, which was published; the seven before them
\* published nothing.
C14_Witness ==
    /\ nFed = 14
    /\ parser = Seeking(0)
    /\ pubLog = <<"FIRMWARE_VERSION">>
    /\ version["firmware_version_sub"] = 1
    /\ latest["firmware_version_sub"] = <<3>>
====
